---------------------------- MODULE Spec2Model ----------------------------
(***************************************************************************)
(* A model of src/Canvas.py: the Color model and its alpha blend, the      *)
(* Rectangle drawable, the Canvas compositor with its layer-sorted draw    *)
(* loop, and the Log / Telemetry timing facility.                          *)
(*                                                                         *)
(* Python class attributes (Log.children, Log.records, Telemetry.roots,    *)
(* Telemetry.logs, Canvas.objects, Canvas.telemetry) are single objects    *)
(* that every instance reads through attribute lookup; no method ever      *)
(* assigns them on an instance.  Each is therefore ONE variable here, and  *)
(* the per-instance view (RecordsOf, ChildrenOf, ObjectsOf) reads it.      *)
(*                                                                         *)
(* Variables named hist_* are history variables: they log the calls made,  *)
(* so that properties can compare what the program holds with what was     *)
(* asked of it.  No action reads them to decide what the program does;     *)
(* guards read them only to bound the number of calls.                     *)
(***************************************************************************)
EXTENDS Integers, Sequences, FiniteSets, TLC

VARIABLES
    Logs,             \* heap of Log instances: Logs[i] is the name of Log i
    Log_records,      \* the class attribute Log.records (line 17)
    Log_children,     \* the class attribute Log.children (line 16)
    Telemetry_logs,   \* the class attribute Telemetry.logs (line 47), in insertion order
    Telemetry_roots,  \* the class attribute Telemetry.roots (line 46)
    wrappers,         \* the functions for which a timing wrapper was built (line 68)
    canvases,         \* heap of Canvas instances: width, height, pixels
    objs,             \* heap of Rectangle instances
    Canvas_objects,   \* the class attribute Canvas.objects (line 86)
    ret,              \* what the last call returned or raised
    hist_records,     \* per Log: the samples passed to record() on that Log
    hist_children,    \* per Log: the Logs passed to inside() on that Log, first time each
    hist_insidePre,   \* TRUE while every inside() call was given a distinct non-ancestor
    hist_measured,    \* the operation identities passed to measure(), in call order
    hist_added,       \* the add() calls made: canvas and drawable, in call order
    hist_calls,       \* how many inside(), draw() and Rectangle.draw() calls were made
    blendArgs,        \* inputs of Color.blend in the blend specification
    blendResult       \* <<>> or <<result of Color.blend>>

vars == <<Logs, Log_records, Log_children, Telemetry_logs, Telemetry_roots,
          canvases, objs, Canvas_objects, ret, hist_records, hist_children,
          hist_insidePre, hist_measured, hist_added, hist_calls, wrappers,
          blendArgs, blendResult>>

logVars    == <<Logs, Log_records, Log_children, hist_records, hist_children,
               hist_insidePre>>
telVars    == <<Telemetry_logs, Telemetry_roots, wrappers, hist_measured>>
canvasVars == <<canvases, objs, Canvas_objects, hist_added>>
blendVars  == <<blendArgs, blendResult>>

---------------------------------------------------------------------------
(* Bounds of the model.                                                    *)

\* alpha takes the values k / 2^AlphaBits, k in 0 .. 2^AlphaBits.  These are
\* exactly representable as floats, and so are all products and sums blend
\* forms from them and 8-bit channels: the float arithmetic of blend is exact.
AlphaBits == 2
\* elapsed times are whole seconds in 0 .. MaxDelta
MaxDelta == 1
\* at most MaxLogs Log instances are constructed directly
MaxLogs == 1
\* at most MaxRecords samples are recorded
MaxRecords == 2
\* at most MaxInside inside() calls are made
MaxInside == 2
\* at most MaxMeasures operations are passed to measure()
MaxMeasures == 2
\* at most MaxCanvases Canvas instances are constructed
MaxCanvases == 2
\* at most MaxObjs drawables are added, with layers in 0 .. MaxLayer
MaxObjs == 3
MaxLayer == 1
\* at most MaxDraws draw() calls are made
MaxDraws == 2
\* the grid of the rectangle specification is GridW x GridH
GridW == 3
GridH == 3

AlphaDen == 2 ^ AlphaBits
Alphas   == 0 .. AlphaDen
Deltas   == 0 .. MaxDelta

Range(s) == {s[i] : i \in DOMAIN s}

---------------------------------------------------------------------------
(* Color (lines 119-158).                                                  *)

\* channel values the inputs are drawn from
ChannelValues == {0, 1, 127, 128, 255}

HexDigits == <<"0", "1", "2", "3", "4", "5", "6", "7", "8", "9",
               "a", "b", "c", "d", "e", "f">>

\* int(c, 16) of one hexadecimal digit
HexVal(c) == (CHOOSE i \in DOMAIN HexDigits : HexDigits[i] = c) - 1

\* the hex setter: '#rrggbb', or '#rgb' with each digit doubled; any other
\* length leaves the colour as it is
Color_hex_set(color, value) ==
    IF Len(value) = 7
    THEN [color EXCEPT !.red   = 16 * HexVal(value[2]) + HexVal(value[3]),
                       !.green = 16 * HexVal(value[4]) + HexVal(value[5]),
                       !.blue  = 16 * HexVal(value[6]) + HexVal(value[7])]
    ELSE IF Len(value) = 4
    THEN [color EXCEPT !.red   = 16 * HexVal(value[2]) + HexVal(value[2]),
                       !.green = 16 * HexVal(value[3]) + HexVal(value[3]),
                       !.blue  = 16 * HexVal(value[4]) + HexVal(value[4])]
    ELSE color

\* Color(red, green, blue, alpha, hex=...); hex = <<>> stands for hex=None
Color_init(red, green, blue, alpha, hex) ==
    LET c == [red |-> red, green |-> green, blue |-> blue, alpha |-> alpha]
    IN  IF hex # <<>> THEN Color_hex_set(c, hex) ELSE c

\* Color(): opaque white
Color_default == Color_init(255, 255, 255, AlphaDen, <<>>)

\* Python's int() of the quotient num / den: truncation toward zero
PyInt(num, den) ==
    IF num >= 0 THEN num \div den ELSE -((-num) \div den)

\* a mutant of BlendChannel: the weights of the two colours are exchanged
BlendChannelSwapped(fg, bg, alpha) ==
    PyInt(bg * alpha + fg * (AlphaDen - alpha), AlphaDen)

\* int(self.c * self.alpha + other.c * (1 - self.alpha)), alpha = alpha / AlphaDen
BlendChannel(fg, bg, alpha) ==
    PyInt(fg * alpha + bg * (AlphaDen - alpha), AlphaDen)

\* self.blend(other): a new Color with the default alpha 1.0
Color_blend(self, other) ==
    Color_init(BlendChannel(self.red, other.red, self.alpha),
               BlendChannel(self.green, other.green, self.alpha),
               BlendChannel(self.blue, other.blue, self.alpha),
               AlphaDen, <<>>)

Colors == [red : ChannelValues, green : ChannelValues, blue : ChannelValues,
           alpha : Alphas]

---------------------------------------------------------------------------
(* The state after the class definitions of the module have run: the       *)
(* decorators of Canvas.show and Canvas.draw (lines 94, 110) have          *)
(* registered one Log each.                                                *)

NoRet == [op |-> "none"]

Registered(key, log) == [key |-> key, log |-> log]

InitProgram ==
    /\ Logs = <<"show", "draw">>
    /\ Log_records = <<>>
    /\ Log_children = <<>>
    /\ Telemetry_logs = <<Registered(<<"show", 0>>, 1), Registered(<<"draw", 0>>, 2)>>
    /\ Telemetry_roots = <<1, 2>>
    /\ objs = <<>>
    /\ Canvas_objects = <<>>
    /\ ret = NoRet
    /\ hist_records = <<<<>>, <<>>>>
    /\ hist_children = <<<<>>, <<>>>>
    /\ hist_insidePre = TRUE
    /\ hist_measured = <<<<"show", 0>>, <<"draw", 0>>>>
    /\ hist_added = <<>>
    /\ hist_calls = 0
    /\ wrappers = {<<"show", 0>>, <<"draw", 0>>}

Init ==
    /\ InitProgram
    /\ canvases = <<>>
    /\ blendArgs = <<>>
    /\ blendResult = <<>>

---------------------------------------------------------------------------
(* The blend specification: the inputs of Color.blend are drawn from       *)
(* Colors, and the one action applies it.                                  *)

InitBlend ==
    /\ InitProgram
    /\ canvases = <<>>
    /\ blendArgs \in [self : Colors, other : Colors]
    /\ blendResult = <<>>

Blend ==
    /\ blendResult = <<>>
    /\ blendResult' = <<Color_blend(blendArgs.self, blendArgs.other)>>
    /\ UNCHANGED <<logVars, telVars, canvasVars, hist_calls, ret, blendArgs>>

SpecBlend == InitBlend /\ [][Blend]_vars

\* the channels of a colour, as a sequence
Channels(c) == <<c.red, c.green, c.blue>>

\* C2: each channel of foreground.blend(background) is the floor of
\* fg*a + bg*(1-a): the integer r with r <= fg*a + bg*(1-a) < r + 1, stated
\* over the common denominator AlphaDen; a = 0 gives the background's
\* channels and a = 1 the foreground's.
C2_BlendIsFloor ==
    blendResult # <<>> =>
        LET fg == blendArgs.self
            bg == blendArgs.other
            r  == blendResult[1]
        IN  /\ \A i \in 1 .. 3 :
                LET exact == Channels(fg)[i] * fg.alpha
                             + Channels(bg)[i] * (AlphaDen - fg.alpha)
                IN  /\ AlphaDen * Channels(r)[i] <= exact
                    /\ exact < AlphaDen * (Channels(r)[i] + 1)
            /\ fg.alpha = 0 => Channels(r) = Channels(bg)
            /\ fg.alpha = AlphaDen => Channels(r) = Channels(fg)

\* C2 witness: a half-transparent red over blue has been blended to (127,0,127)
C2_Witness ==
    /\ blendResult # <<>>
    /\ blendArgs.self.alpha * 2 = AlphaDen
    /\ Channels(blendArgs.self) = <<255, 0, 0>>
    /\ Channels(blendArgs.other) = <<0, 0, 255>>
    /\ Channels(blendResult[1]) = <<127, 0, 127>>

---------------------------------------------------------------------------
(* Log (lines 15-43).                                                      *)

\* the names given to the Logs constructed directly, in construction order
LogNames == <<"a", "b", "c", "d">>

\* self.records and self.children: attribute lookup finds no instance
\* attribute and falls back to the class attribute
RecordsOf(l) == Log_records
ChildrenOf(l) == Log_children

RECURSIVE Sum(_)
Sum(s) == IF s = <<>> THEN 0 ELSE Head(s) + Sum(Tail(s))

\* round(x, 3) of the quotient num / den of whole numbers, in thousandths.
\* With fewer than 16 samples 1000 * num / den is never half-way between
\* two thousandths, so rounding half up is what round() returns.
Round3(num, den) == (2000 * num + den) \div (2 * den)

\* self.average(): the division raises ZeroDivisionError on an empty list
Log_average(l) ==
    IF Len(RecordsOf(l)) = 0
    THEN [raised |-> "ZeroDivisionError", value |-> 0]
    ELSE [raised |-> "", value |-> Round3(Sum(RecordsOf(l)), Len(RecordsOf(l)))]

\* the lines of a child's report, the first behind `first` and the others
\* behind `rest`: report().replace('\n', '\n' + rest) appended to '\n' + first
Indented(lines, first, rest) ==
    [i \in DOMAIN lines |->
        [lines[i] EXCEPT !.indent = <<IF i = 1 THEN first ELSE rest>> \o @]]

\* self.report() as its sequence of lines.  fuel counts the frames left: a
\* chain of distinct Logs is no longer than the heap, so running out of fuel
\* is a Log reached again from itself, which in Python never returns
\* (RecursionError).
RECURSIVE Log_report(_, _), Log_reportChildren(_, _, _, _)
Log_report(l, fuel) ==
    IF fuel = 0 THEN [raised |-> "RecursionError", lines |-> <<>>]
    ELSE LET avg == Log_average(l)
         IN  IF avg.raised # ""
             THEN [raised |-> avg.raised, lines |-> <<>>]
             ELSE Log_reportChildren(l, fuel,
                      <<[indent |-> <<>>, log |-> l, name |-> Logs[l],
                         average |-> avg.value]>>, 1)

Log_reportChildren(l, fuel, report, index) ==
    IF ~(index <= Len(ChildrenOf(l)))
    THEN [raised |-> "", lines |-> report]
    ELSE LET child == Log_report(ChildrenOf(l)[index], fuel - 1)
         IN  IF child.raised # ""
             THEN [raised |-> child.raised, lines |-> <<>>]
             ELSE Log_reportChildren(l, fuel,
                      report \o (IF index = Len(ChildrenOf(l))
                                 THEN Indented(child.lines, " L- ", "    ")
                                 ELSE Indented(child.lines, " |- ", " |  ")),
                      index + 1)

\* the Logs reachable from l through children lists, l's children included
RECURSIVE Reach(_, _)
Reach(front, n) ==
    IF n = 0 THEN front
    ELSE Reach(front \cup UNION {Range(ChildrenOf(c)) : c \in front}, n - 1)

Descendants(l) == Reach(Range(ChildrenOf(l)), Len(Logs))

LogIds == 1 .. Len(Logs)

\* Log(name), called directly
NewLog ==
    /\ Len(Logs) < 2 + MaxLogs
    /\ Logs' = Append(Logs, LogNames[Len(Logs) - 1])
    /\ hist_records' = Append(hist_records, <<>>)
    /\ hist_children' = Append(hist_children, <<>>)
    /\ ret' = [op |-> "Log", log |-> Len(Logs) + 1]
    /\ UNCHANGED <<Log_records, Log_children, hist_insidePre, telVars, canvasVars,
                   hist_calls, blendVars>>

\* self.record(delta)
Record(l, delta) ==
    /\ Len(Log_records) < MaxRecords
    /\ Log_records' = Append(Log_records, delta)
    /\ hist_records' = [hist_records EXCEPT ![l] = Append(@, delta)]
    /\ ret' = [op |-> "record", log |-> l]
    /\ UNCHANGED <<Logs, Log_children, hist_children, hist_insidePre, telVars,
                   canvasVars, hist_calls, blendVars>>

\* self.inside(log)
Inside(l, log) ==
    /\ hist_calls < MaxInside
    /\ hist_calls' = hist_calls + 1
    /\ Log_children' = IF log \notin Range(ChildrenOf(l))
                       THEN Append(Log_children, log)
                       ELSE Log_children
    /\ hist_children' = [hist_children EXCEPT ![l] =
                            IF log \in Range(@) THEN @ ELSE Append(@, log)]
    /\ hist_insidePre' = (hist_insidePre /\ l # log /\ l \notin Descendants(log))
    /\ ret' = [op |-> "inside", log |-> l]
    /\ UNCHANGED <<Logs, Log_records, hist_records, telVars, canvasVars, blendVars>>

\* self.average()
Average(l) ==
    /\ ret' = [op |-> "average", log |-> l] @@ Log_average(l)
    /\ UNCHANGED <<logVars, telVars, canvasVars, hist_calls, blendVars>>

\* self.report()
Report(l) ==
    /\ ret' = [op |-> "report", log |-> l] @@ Log_report(l, Len(Logs) + 1)
    /\ UNCHANGED <<logVars, telVars, canvasVars, hist_calls, blendVars>>

NextLog ==
    \/ NewLog
    \/ \E l \in LogIds, delta \in Deltas : Record(l, delta)
    \/ \E l \in LogIds, log \in LogIds : Inside(l, log)
    \/ \E l \in LogIds : Average(l)
    \/ \E l \in LogIds : Report(l)

SpecLog == Init /\ [][NextLog]_vars

\* C4: each Log holds exactly the samples recorded on it and exactly the
\* children attached to it: a record() or inside() on one Log never shows
\* in another Log's records or children.
C4_LogsOwnTheirLists ==
    \A l \in LogIds :
        /\ RecordsOf(l) = hist_records[l]
        /\ ChildrenOf(l) = hist_children[l]

\* C8: average() on a Log on which record() was never called fails (read
\* here as: raises anything at all) and returns no value, whatever was recorded on other Logs; on
\* a Log with samples it returns the mean of that Log's samples.
C8_AverageOfOwnSamples ==
    ret.op = "average" =>
        IF hist_records[ret.log] = <<>>
        THEN ret.raised # ""
        ELSE /\ ret.raised = ""
             /\ ret.value = Round3(Sum(hist_records[ret.log]),
                                   Len(hist_records[ret.log]))

\* C10: while every inside() call attached a distinct Log that was not an
\* ancestor of the receiver, no Log is its own child or descendant, and
\* report() on a Log with samples returns, with one block per attached child.
C10_ChildrenAcyclic ==
    hist_insidePre =>
        /\ \A l \in LogIds : l \notin Descendants(l)
        /\ (ret.op = "report" /\ RecordsOf(ret.log) # <<>>) =>
               ret.raised # "RecursionError"

---------------------------------------------------------------------------
(* Telemetry (lines 45-82).                                                *)

\* what a measured operation does when called: returns one of these values
\* or raises
Results == {"None", "a"}
Outcomes == Results \cup {"raise"}

\* named operations passed to measure() by a caller
Callbacks == {<<"f", 0>>, <<"g", 0>>}

\* name arguments: "" stands for name=None
Names == {"", "Object"}

Keys(logs) == [i \in DOMAIN logs |-> logs[i].key]

\* self.logs[key]
LogOf(logs, key) == logs[CHOOSE i \in DOMAIN logs : logs[i].key = key].log

\* a mutant of NotIn: the membership test always answers "not registered"
NotInAlways(key, logs) == TRUE

\* callback not in self.logs
NotIn(key, logs) == key \notin Range(Keys(logs))

\* self.logs[key] = log: a dict keeps one entry per key, in insertion order
DictSet(logs, key, log) ==
    IF key \in Range(Keys(logs))
    THEN [i \in DOMAIN logs |->
             IF logs[i].key = key THEN Registered(key, log) ELSE logs[i]]
    ELSE Append(logs, Registered(key, log))

\* the telemetry state the operators below thread through a call
TelState == [Logs |-> Logs, Log_records |-> Log_records,
             Telemetry_logs |-> Telemetry_logs, Telemetry_roots |-> Telemetry_roots,
             hist_records |-> hist_records, hist_children |-> hist_children,
             hist_measured |-> hist_measured]

\* lines 51-53 and 64-66: create and register the Log of an operation not
\* yet in self.logs; the Log is named name, or after the operation
Register(t, name, key) ==
    LET t1 == [t EXCEPT !.hist_measured = Append(@, key)]
    IN  IF NotIn(key, t.Telemetry_logs)
        THEN [t1 EXCEPT
                 !.Logs = Append(@, IF name # "" THEN name ELSE key[1]),
                 !.hist_records = Append(@, <<>>),
                 !.hist_children = Append(@, <<>>),
                 !.Telemetry_logs = DictSet(@, key, Len(t.Logs) + 1),
                 !.Telemetry_roots = Append(@, Len(t.Logs) + 1)]
        ELSE t1

\* self.logs[key].record(end - start)
RecordOn(t, key, delta) ==
    [t EXCEPT !.Log_records = Append(@, delta),
              !.hist_records[LogOf(t.Telemetry_logs, key)] = Append(@, delta)]

\* a mutant of DirectReturn: the direct form hands the result on
DirectReturnResult(result) == result

\* line 61: the direct form ends in a bare return
DirectReturn(result) == "None"

\* line 75: the wrapper returns the wrapped operation's result
WrapperReturn(result) == result

\* the closure a caller builds for one call, as Canvas.draw does at line 114:
\* a new function object, distinct from every one registered before
FreshLambda ==
    <<"<lambda>",
      1 + Cardinality({i \in DOMAIN Telemetry_logs :
                           Telemetry_logs[i].key[1] = "<lambda>"})>>

SetTel(t) ==
    /\ Logs' = t.Logs
    /\ Log_records' = t.Log_records
    /\ Telemetry_logs' = t.Telemetry_logs
    /\ Telemetry_roots' = t.Telemetry_roots
    /\ hist_records' = t.hist_records
    /\ hist_children' = t.hist_children
    /\ hist_measured' = t.hist_measured

\* telemetry.measure(name, callback), the direct form (lines 50-61)
Measure(name, callback, outcome, delta) ==
    /\ Len(hist_measured) < 2 + MaxMeasures
    /\ Len(Log_records) < MaxRecords
    /\ LET t == Register(TelState, name, callback)
       IN  IF outcome = "raise"
           THEN /\ SetTel(t)
                /\ ret' = [op |-> "measure", key |-> callback, result |-> outcome,
                           returned |-> "", raised |-> "Exception"]
           ELSE /\ SetTel(RecordOn(t, callback, delta))
                /\ ret' = [op |-> "measure", key |-> callback, result |-> outcome,
                           returned |-> DirectReturn(outcome), raised |-> ""]
    /\ UNCHANGED <<Log_children, hist_insidePre, wrappers, canvasVars, hist_calls,
                   blendVars>>

\* telemetry.measure(name)(func), the decorating form (lines 63-77)
Decorate(name, func) ==
    /\ Len(hist_measured) < 2 + MaxMeasures
    /\ SetTel(Register(TelState, name, func))
    /\ wrappers' = wrappers \cup {func}
    /\ ret' = [op |-> "decorate", key |-> func, result |-> "", returned |-> "wrapper",
               raised |-> ""]
    /\ UNCHANGED <<Log_children, hist_insidePre, canvasVars, hist_calls, blendVars>>

\* a call of the wrapper built for func (lines 68-75)
CallWrapper(func, outcome, delta) ==
    /\ func \in wrappers
    /\ Len(Log_records) < MaxRecords
    /\ IF outcome = "raise"
       THEN /\ SetTel(TelState)
            /\ ret' = [op |-> "call", key |-> func, result |-> outcome,
                       returned |-> "", raised |-> "Exception"]
       ELSE /\ SetTel(RecordOn(TelState, func, delta))
            /\ ret' = [op |-> "call", key |-> func, result |-> outcome,
                       returned |-> WrapperReturn(outcome), raised |-> ""]
    /\ UNCHANGED <<Log_children, hist_insidePre, wrappers, canvasVars, hist_calls,
                   blendVars>>

NextTel ==
    \/ \E name \in Names, callback \in Callbacks, outcome \in Outcomes, delta \in Deltas :
           Measure(name, callback, outcome, delta)
    \/ \E name \in Names, outcome \in Outcomes, delta \in Deltas :
           Measure(name, FreshLambda, outcome, delta)
    \/ \E name \in Names, func \in Callbacks : Decorate(name, func)
    \/ \E func \in Callbacks, outcome \in Outcomes, delta \in Deltas :
           CallWrapper(func, outcome, delta)

SpecTel == Init /\ [][NextTel]_vars

RECURSIVE FirstOccurrences(_)
FirstOccurrences(s) ==
    IF s = <<>> THEN <<>>
    ELSE LET front == FirstOccurrences(SubSeq(s, 1, Len(s) - 1))
         IN  IF s[Len(s)] \in Range(front) THEN front ELSE Append(front, s[Len(s)])

Count(s, x) == Cardinality({i \in DOMAIN s : s[i] = x})

\* the registry holds one entry and one Log per operation passed to
\* measure(), and roots lists those Logs in first-registration order
RegistryMatchesCalls ==
    /\ \A i, j \in DOMAIN Telemetry_logs :
           i # j => /\ Telemetry_logs[i].key # Telemetry_logs[j].key
                    /\ Telemetry_logs[i].log # Telemetry_logs[j].log
    /\ Keys(Telemetry_logs) = FirstOccurrences(hist_measured)
    /\ Telemetry_roots = [i \in DOMAIN Telemetry_logs |-> Telemetry_logs[i].log]
    /\ \A i \in DOMAIN Telemetry_logs : Telemetry_logs[i].log \in LogIds

\* C6, as amended: the direct form measure(name, operation) returns None
\* whatever the operation returned; the wrapper of the decorating form
\* returns exactly what the wrapped operation returned.
C6_DirectFormReturnsNone ==
    /\ (ret.op = "measure" /\ ret.raised = "") => ret.returned = "None"
    /\ (ret.op = "call" /\ ret.raised = "") => ret.returned = ret.result

\* C6, as claimed: the direct form returns to its caller the value the
\* operation returned, whenever the operation completes.
C6_DirectFormReturnsResult ==
    (ret.op = "measure" /\ ret.raised = "") => ret.returned = ret.result

\* C6 witness: a direct measure of an operation that returned "a" came back
\* with None
C6_Witness ==
    /\ ret.op = "measure"
    /\ ret.raised = ""
    /\ ret.result = "a"
    /\ ret.returned = "None"

\* C7: the registry holds exactly one Log per operation identity passed to
\* measure(), roots lists these Logs once each in first-registration order,
\* and a completed measurement of an identity already registered leaves
\* registry, roots and the Log heap as they are and appends one sample to
\* the records of that identity's Log.
C7_OneLogPerIdentity ==
    /\ []RegistryMatchesCalls
    /\ [][(/\ ret'.op \in {"measure", "call"}
           /\ ret'.raised = ""
           /\ ret'.key \in Range(Keys(Telemetry_logs)))
          => /\ Telemetry_logs' = Telemetry_logs
             /\ Telemetry_roots' = Telemetry_roots
             /\ Logs' = Logs
             /\ \E delta \in Deltas :
                    RecordsOf(LogOf(Telemetry_logs, ret'.key))'
                        = Append(RecordsOf(LogOf(Telemetry_logs, ret'.key)), delta)]_vars

\* C7 witness: an identity passed to measure() twice, both measurements
\* completed, the second one finding the Log the first one registered
C7_Witness ==
    /\ ret.op = "measure"
    /\ ret.raised = ""
    /\ Count(hist_measured, ret.key) = 2
    /\ Len(hist_records[LogOf(Telemetry_logs, ret.key)]) = 2
    /\ Len(Telemetry_logs) = 3

---------------------------------------------------------------------------
(* Rectangle (lines 167-184).                                              *)

\* the class attributes background_color and border_color (lines 168, 169)
Rectangle_background_color == Color_init(255, 255, 255, 0, <<>>)
Rectangle_border_color == Color_init(255, 255, 255, AlphaDen, <<"#", "0", "0", "0">>)

\* Rectangle(x, y, width, height) with the layer and colours set on it
Rectangle_init(x, y, width, height, layer, border, background) ==
    [x |-> x, y |-> y, width |-> width, height |-> height, layer |-> layer,
     border_color |-> border, background_color |-> background]

\* list[i] for a list of n items, as a 0-based position: a negative index
\* counts from the end; -1 stands for IndexError
PyIndex(i, n) ==
    IF 0 <= i /\ i < n THEN i
    ELSE IF -n <= i /\ i < 0 THEN n + i
    ELSE -1

\* a mutant of IsBorder: the last column is not tested
IsBorderNoLastColumn(self, x, y) ==
    \/ y = self.y
    \/ y = self.y + self.height - 1
    \/ x = self.x

\* the test of line 181
IsBorder(self, x, y) ==
    \/ y = self.y
    \/ y = self.y + self.height - 1
    \/ x = self.x
    \/ x = self.x + self.width - 1

\* the two nested range() loops from their k-th iteration on; pixels is the
\* list of rows, each a list of Colors (positions are 1-based here)
RECURSIVE Rectangle_drawFrom(_, _, _)
Rectangle_drawFrom(self, pixels, k) ==
    IF self.width <= 0 \/ self.height <= 0 \/ k >= self.width * self.height
    THEN [pixels |-> pixels, raised |-> ""]
    ELSE LET y  == self.y + (k \div self.width)
             x  == self.x + (k % self.width)
             yi == PyIndex(y, Len(pixels))
             xi == PyIndex(x, Len(pixels[yi + 1]))
         IN  IF yi < 0 \/ xi < 0
             THEN [pixels |-> pixels, raised |-> "IndexError"]
             ELSE Rectangle_drawFrom(self,
                      [pixels EXCEPT ![yi + 1][xi + 1] =
                          IF IsBorder(self, x, y)
                          THEN Color_blend(self.border_color, @)
                          ELSE Color_blend(self.background_color, @)],
                      k + 1)

\* self.draw(canvas), on the canvas's pixels
Rectangle_draw(self, pixels) == Rectangle_drawFrom(self, pixels, 0)

---------------------------------------------------------------------------
(* Canvas (lines 84-117).                                                  *)

\* Canvas(width, height): every pixel a Color() of its own
Canvas_init(width, height) ==
    [width |-> width, height |-> height,
     pixels |-> [y \in 1 .. height |-> [x \in 1 .. width |-> Color_default]]]

\* self.objects: attribute lookup falls back to the class attribute
ObjectsOf(c) == Canvas_objects

CanvasIds == 1 .. Len(canvases)

\* a mutant of StaysBefore: equal layers do not keep their order
StaysBeforeStrict(a, b) == objs[a].layer < objs[b].layer

\* list.sort(key=lambda obj: obj.layer) is stable: an item already placed
\* stays before a later item unless its layer is greater
StaysBefore(a, b) == objs[a].layer <= objs[b].layer

RECURSIVE InsertSorted(_, _)
InsertSorted(sorted, o) ==
    IF sorted = <<>> THEN <<o>>
    ELSE IF StaysBefore(sorted[Len(sorted)], o) THEN Append(sorted, o)
    ELSE Append(InsertSorted(SubSeq(sorted, 1, Len(sorted) - 1), o),
                sorted[Len(sorted)])

RECURSIVE SortByLayer(_)
SortByLayer(list) ==
    IF list = <<>> THEN <<>>
    ELSE InsertSorted(SortByLayer(SubSeq(list, 1, Len(list) - 1)), list[Len(list)])

\* elapsed whole seconds of one measured drawable on grids this small, and
\* of the draw() around them
DrawDeltas == {0}

\* the loop of lines 113-114 from its index-th object on: each drawable is
\* drawn inside telemetry.measure('Object', <new closure>), which registers
\* a Log for the closure, calls it and, unless it raised, records a sample.
\* st holds the pixels of self, the telemetry state, the drawables invoked
\* so far and the exception under way.
RECURSIVE Canvas_drawLoop(_, _, _, _)
Canvas_drawLoop(list, st, index, deltas) ==
    IF index > Len(list) THEN st
    ELSE LET key   == <<"<lambda>",
                        1 + Cardinality({i \in DOMAIN st.tel.Telemetry_logs :
                                st.tel.Telemetry_logs[i].key[1] = "<lambda>"})>>
             t     == Register(st.tel, "Object", key)
             drawn == Rectangle_draw(objs[list[index]], st.pixels)
             st1   == [st EXCEPT !.pixels = drawn.pixels,
                                 !.invoked = Append(@, list[index])]
         IN  IF drawn.raised # ""
             THEN [st1 EXCEPT !.tel = t, !.raised = drawn.raised]
             ELSE Canvas_drawLoop(list,
                      [st1 EXCEPT !.tel = RecordOn(t, key, deltas[index])],
                      index + 1, deltas)

\* the sizes canvases are built with, and the drawables added to them: one
\* pixel wide and high, at x in RectXs, so that x = 1 lies outside a canvas
\* of width 1
CanvasWidths == {1, 2}
CanvasHeights == {1}
RectXs == {0, 1}
Layers == 0 .. MaxLayer

\* Canvas(width, height), lines 88-92
NewCanvas(width, height) ==
    /\ Len(canvases) < MaxCanvases
    /\ canvases' = Append(canvases, Canvas_init(width, height))
    /\ ret' = [op |-> "Canvas", canvas |-> Len(canvases) + 1]
    /\ UNCHANGED <<logVars, telVars, objs, Canvas_objects, hist_added, hist_calls,
                   blendVars>>

\* self.add(obj), line 117; o is the position of obj in the heap
Canvas_add(c, o) ==
    /\ Len(hist_added) < MaxObjs
    /\ Canvas_objects' = Append(ObjectsOf(c), o)
    /\ hist_added' = Append(hist_added, [canvas |-> c, obj |-> o])
    /\ ret' = [op |-> "add", canvas |-> c]
    /\ UNCHANGED <<logVars, telVars, canvases, hist_calls, blendVars>>

\* self.add(obj) with obj a Rectangle built for the call
Add(c, obj) ==
    /\ objs' = Append(objs, obj)
    /\ Canvas_add(c, Len(objs) + 1)

\* self.add(obj) with obj a Rectangle built earlier: add() does not dedup
AddAgain(c, o) ==
    /\ objs' = objs
    /\ Canvas_add(c, o)

\* self.draw(), lines 110-114, through the wrapper the decorator of line 110
\* built: the wrapper records a sample on draw's Log unless draw raised
Draw(c) ==
    /\ hist_calls < MaxDraws
    /\ hist_calls' = hist_calls + 1
    /\ LET list == SortByLayer(ObjectsOf(c))
       IN  \E deltas \in [1 .. Len(list) + 1 -> DrawDeltas] :
             LET st == Canvas_drawLoop(list,
                           [pixels |-> canvases[c].pixels, tel |-> TelState,
                            invoked |-> <<>>, raised |-> ""], 1, deltas)
             IN  /\ Canvas_objects' = list
                 /\ canvases' = [canvases EXCEPT ![c].pixels = st.pixels]
                 /\ SetTel(IF st.raised = ""
                           THEN RecordOn(st.tel, <<"draw", 0>>, deltas[Len(list) + 1])
                           ELSE st.tel)
                 /\ ret' = [op |-> "draw", canvas |-> c, invoked |-> st.invoked,
                            raised |-> st.raised]
    /\ UNCHANGED <<Log_children, hist_insidePre, wrappers, objs, hist_added, blendVars>>

AddSome ==
    \E c \in CanvasIds, x \in RectXs, layer \in Layers :
        Add(c, Rectangle_init(x, 0, 1, 1, layer, Rectangle_border_color,
                              Rectangle_background_color))

AddAgainSome == \E c \in CanvasIds, o \in DOMAIN objs : AddAgain(c, o)

DrawSome == \E c \in CanvasIds : Draw(c)

NewCanvasSome ==
    \E width \in CanvasWidths, height \in CanvasHeights : NewCanvas(width, height)

\* one canvas, constructed at the start: canvas = Canvas(width, height)
InitCanvas ==
    /\ InitProgram
    /\ canvases \in {<<Canvas_init(width, height)>> :
                        width \in CanvasWidths, height \in CanvasHeights}
    /\ blendArgs = <<>>
    /\ blendResult = <<>>

NextCanvas == AddSome \/ AddAgainSome \/ DrawSome

SpecCanvas == InitCanvas /\ [][NextCanvas]_vars

\* several canvases, constructed as the program runs
NextCanvases == NewCanvasSome \/ AddSome \/ AddAgainSome \/ DrawSome

SpecCanvases == Init /\ [][NextCanvases]_vars

\* the drawables passed to add(), on any canvas, in call order
Added == [i \in DOMAIN hist_added |-> hist_added[i].obj]
AddedTo(c) == {hist_added[i].obj : i \in {j \in DOMAIN hist_added : hist_added[j].canvas = c}}

\* the drawable of add() call i is drawn before that of add() call j: lower
\* layer first, equal layers in add() order
DrawnBefore(i, j) ==
    \/ objs[Added[i]].layer < objs[Added[j]].layer
    \/ objs[Added[i]].layer = objs[Added[j]].layer /\ i < j

\* the place in the draw order of the drawable of add() call i
Place(i) == 1 + Cardinality({j \in DOMAIN Added : DrawnBefore(j, i)})

\* C1, as amended: a draw() in which no drawable fails invokes every added
\* drawable exactly once (once per add() call that passed it), in ascending
\* order of layer and, within a layer, in add() order; a draw() in which a
\* drawable fails stops there, having invoked in that order the drawables up
\* to the failing one, and none of those after it.
C1_DrawOrderUntilFailure ==
    ret.op = "draw" =>
        /\ Len(ret.invoked) <= Len(Added)
        /\ \A i \in DOMAIN Added :
               Place(i) <= Len(ret.invoked) => ret.invoked[Place(i)] = Added[i]
        /\ ret.raised = "" => Len(ret.invoked) = Len(Added)
        /\ ret.raised # "" => ret.invoked # <<>>

\* C1, as claimed: every draw() invokes every added drawable exactly once
\* (once per add() call that passed it), in ascending order of layer and,
\* within a layer, in add() order.
C1_DrawOrderAlways ==
    ret.op = "draw" =>
        /\ Len(ret.invoked) = Len(Added)
        /\ \A i \in DOMAIN Added : ret.invoked[Place(i)] = Added[i]

\* C1 witness: a completed draw() of three drawables, two of one layer, that
\* were added in another order than they were drawn in
C1_Witness ==
    /\ ret.op = "draw"
    /\ ret.raised = ""
    /\ Len(ret.invoked) >= 3
    /\ ret.invoked # Added
    /\ \E i, j \in DOMAIN ret.invoked :
           /\ i # j
           /\ ret.invoked[i] # ret.invoked[j]
           /\ objs[ret.invoked[i]].layer = objs[ret.invoked[j]].layer

\* C5: each canvas holds exactly the drawables added to it, and its draw()
\* invokes only those.
C5_CanvasesOwnTheirObjects ==
    /\ \A c \in CanvasIds : Range(ObjectsOf(c)) = AddedTo(c)
    /\ ret.op = "draw" => Range(ret.invoked) \subseteq AddedTo(ret.canvas)

---------------------------------------------------------------------------
(* The rectangle specification: on one canvas of GridW x GridH a Rectangle *)
(* is drawn by a direct call of Rectangle.draw, and a second one over the  *)
(* result, so that the second blends over pixels that are no longer the     *)
(* initial white.                                                           *)

\* the colours given to a Rectangle: the class defaults (opaque black border,
\* transparent fill), or a half-transparent red border with an opaque blue fill
RectColours ==
    {<<Rectangle_border_color, Rectangle_background_color>>,
     <<Color_init(255, 0, 0, AlphaDen \div 2, <<>>), Color_init(0, 0, 255, AlphaDen, <<>>)>>}

\* the rectangles drawn: boxes that start one pixel above or left of the
\* grid, or inside it before its last row and column, and may end beyond it
Rects ==
    {Rectangle_init(x, y, width, height, 0, cs[1], cs[2]) :
        x \in -1 .. GridW - 2, y \in -1 .. GridH - 2,
        width \in 1 .. GridW, height \in 1 .. GridH, cs \in RectColours}

InitRect ==
    /\ InitProgram
    /\ canvases = <<Canvas_init(GridW, GridH)>>
    /\ blendArgs = <<>>
    /\ blendResult = <<>>

\* rect.draw(canvas), called directly on canvas 1
RectangleDraw(rect) ==
    /\ hist_calls \in {0, 1}
    /\ hist_calls' = hist_calls + 1
    /\ LET drawn == Rectangle_draw(rect, canvases[1].pixels)
       IN  /\ canvases' = [canvases EXCEPT ![1].pixels = drawn.pixels]
           /\ ret' = [op |-> "Rectangle.draw", rect |-> rect,
                      before |-> canvases[1].pixels, raised |-> drawn.raised]
    /\ UNCHANGED <<logVars, telVars, objs, Canvas_objects, hist_added, blendVars>>

NextRect == \E rect \in Rects : RectangleDraw(rect)

SpecRect == InitRect /\ [][NextRect]_vars

\* grid coordinates are 0-based: pixel (x, y) is pixels[y + 1][x + 1]
GridXs == 0 .. GridW - 1
GridYs == 0 .. GridH - 1
PixelAt(pixels, x, y) == pixels[y + 1][x + 1]

InBox(r, x, y) ==
    /\ r.x <= x /\ x < r.x + r.width
    /\ r.y <= y /\ y < r.y + r.height

BoxInsideGrid(r) ==
    /\ 0 <= r.x /\ r.x + r.width <= GridW
    /\ 0 <= r.y /\ r.y + r.height <= GridH

OnRing(r, x, y) ==
    \/ y = r.y \/ y = r.y + r.height - 1
    \/ x = r.x \/ x = r.x + r.width - 1

\* C3: drawing a Rectangle whose box lies inside the grid replaces each
\* pixel on the first or last row or column of the box by border_color
\* blended over the old pixel, every other pixel of the box by
\* background_color blended over the old pixel, and no pixel outside the
\* box; with an opaque border and a transparent fill the ring takes the
\* border's channels and the interior keeps its own.
C3_RectangleCompositing ==
    (ret.op = "Rectangle.draw" /\ BoxInsideGrid(ret.rect)) =>
        /\ ret.raised = ""
        /\ \A x \in GridXs, y \in GridYs :
            LET old == PixelAt(ret.before, x, y)
                new == PixelAt(canvases[1].pixels, x, y)
            IN  /\ (InBox(ret.rect, x, y) /\ OnRing(ret.rect, x, y))
                       => new = Color_blend(ret.rect.border_color, old)
                /\ (InBox(ret.rect, x, y) /\ ~OnRing(ret.rect, x, y))
                       => new = Color_blend(ret.rect.background_color, old)
                /\ ~InBox(ret.rect, x, y) => new = old
                /\ (/\ ret.rect.border_color.alpha = AlphaDen
                    /\ ret.rect.background_color.alpha = 0
                    /\ InBox(ret.rect, x, y))
                       => Channels(new) = IF OnRing(ret.rect, x, y)
                                          THEN Channels(ret.rect.border_color)
                                          ELSE Channels(old)

\* C3 witness: a rectangle with an interior, inside the grid, was drawn over
\* pixels an earlier rectangle had changed
C3_Witness ==
    /\ ret.op = "Rectangle.draw"
    /\ BoxInsideGrid(ret.rect)
    /\ ret.rect.width >= 3 /\ ret.rect.height >= 3
    /\ \E x \in GridXs, y \in GridYs :
           /\ InBox(ret.rect, x, y) /\ ~OnRing(ret.rect, x, y)
           /\ PixelAt(ret.before, x, y) # Color_default
           /\ PixelAt(canvases[1].pixels, x, y) # PixelAt(ret.before, x, y)

\* C9: drawing a Rectangle whose box leaves the grid either raises or
\* clips, and in both cases changes no grid pixel outside the box.
C9_NoPixelOutsideBox ==
    (ret.op = "Rectangle.draw" /\ ~BoxInsideGrid(ret.rect)) =>
        \A x \in GridXs, y \in GridYs :
            ~InBox(ret.rect, x, y) =>
                PixelAt(canvases[1].pixels, x, y) = PixelAt(ret.before, x, y)

===========================================================================
